---- MODULE Spec2Model ----
(***************************************************************************)
(* Model of src/parser.py: the FOLParser tokenizer and recursive-descent   *)
(* parser for a subset of first-order logic, and the __repr__ rendering of *)
(* its AST nodes.                                                          *)
(*                                                                         *)
(* A text is a sequence of characters (one-character strings); a token is  *)
(* a non-empty sequence of characters.  Python's None is the empty         *)
(* sequence: the tokenizer never yields an empty token, and None and ''    *)
(* are both falsy in the tests the parser makes.                           *)
(***************************************************************************)
EXTENDS Integers, Sequences, FiniteSets, TLC

VARIABLES text, tokens, pos, stack, status, result, error, round, first, other

vars == <<text, tokens, pos, stack, status, result, error, round, first, other>>

\* ------------------------------------------------------------ characters

None == <<>>

LowerAZ == {"a", "b", "c", "d", "e", "f", "g", "h", "i", "j", "k", "l", "m",
            "n", "o", "p", "q", "r", "s", "t", "u", "v", "w", "x", "y", "z"}

UpperAZ == {"A", "B", "C", "D", "E", "F", "G", "H", "I", "J", "K", "L", "M",
            "N", "O", "P", "Q", "R", "S", "T", "U", "V", "W", "X", "Y", "Z"}

Digits == {"0", "1", "2", "3", "4", "5", "6", "7", "8", "9"}

\* Letters outside ASCII (U+00E9 and U+00C9, each one character, written
\* here by name): str.islower / str.isupper accept them, the character
\* classes [a-z] and [A-Z] of the token regex do not.
OtherLower == {"e-acute"}

OtherUpper == {"E-acute"}

\* \s of the regex and str.isspace
Whitespace == {" "}

\* str.islower(): at least one cased character and no uppercase one
IsLower(s) ==
    /\ \E i \in 1..Len(s) : s[i] \in LowerAZ \cup OtherLower
    /\ \A i \in 1..Len(s) : s[i] \notin UpperAZ \cup OtherUpper

\* str.isupper(): at least one cased character and no lowercase one
IsUpper(s) ==
    /\ \E i \in 1..Len(s) : s[i] \in UpperAZ \cup OtherUpper
    /\ \A i \in 1..Len(s) : s[i] \notin LowerAZ \cup OtherLower

\* str.isspace(): non-empty and whitespace only
IsSpace(s) == Len(s) > 0 /\ \A i \in 1..Len(s) : s[i] \in Whitespace

\* ------------------------------------------------------------- tokenizer

\* text.replace('(', ' ( ').replace(')', ' ) ').replace('.', ' . ')
RECURSIVE Replace(_)
Replace(t) ==
    IF t = <<>> THEN <<>>
    ELSE (IF Head(t) \in {"(", ")", "."} THEN <<" ", Head(t), " ">> ELSE <<Head(t)>>)
         \o Replace(Tail(t))

\* the number of characters of class cls that t holds from position p on
RECURSIVE Run(_, _, _)
Run(t, p, cls) ==
    IF p <= Len(t) /\ t[p] \in cls THEN 1 + Run(t, p + 1, cls) ELSE 0

\* The length of the text the group of token_regex matches at position p,
\* 0 when no alternative matches there:
\*   \(|\)|[a-z][a-z0-9]*|[A-Z][A-Z0-9]*|~|&|\||->|\.|,
TokLenAt(t, p) ==
    IF p > Len(t) THEN 0
    ELSE IF t[p] \in {"(", ")"} THEN 1
    ELSE IF t[p] \in LowerAZ THEN 1 + Run(t, p + 1, LowerAZ \cup Digits)
    ELSE IF t[p] \in UpperAZ THEN 1 + Run(t, p + 1, UpperAZ \cup Digits)
    ELSE IF t[p] \in {"~", "&", "|"} THEN 1
    ELSE IF t[p] = "-" /\ p + 1 <= Len(t) /\ t[p + 1] = ">" THEN 2
    ELSE IF t[p] \in {".", ","} THEN 1
    ELSE 0

\* re.split(token_regex, text): the pieces of t between the matches of
\* \s*(group)\s* and the groups themselves, in order; s is where the
\* current piece starts, p the position the next match is tried at.
RECURSIVE Split(_, _, _)
Split(t, s, p) ==
    IF p > Len(t) THEN <<SubSeq(t, s, Len(t))>>
    ELSE LET b == p + Run(t, p, Whitespace)
             k == TokLenAt(t, b)
             e == b + k + Run(t, b + k, Whitespace)
         IN  IF k > 0
             THEN <<SubSeq(t, s, p - 1), SubSeq(t, b, b + k - 1)>> \o Split(t, e, e)
             ELSE Split(t, s, p + 1)

\* Kept, with the pieces that are no token of the regex dropped as well
RECURSIVE KeptMatchedOnly(_)
KeptMatchedOnly(pieces) ==
    IF pieces = <<>> THEN <<>>
    ELSE (IF Head(pieces) # <<>> /\ TokLenAt(Head(pieces), 1) = Len(Head(pieces))
          THEN <<Head(pieces)>> ELSE <<>>)
         \o KeptMatchedOnly(Tail(pieces))

\* [t for t in pieces if t and not t.isspace()]
RECURSIVE Kept(_)
Kept(pieces) ==
    IF pieces = <<>> THEN <<>>
    ELSE (IF Head(pieces) # <<>> /\ ~IsSpace(Head(pieces)) THEN <<Head(pieces)>> ELSE <<>>)
         \o Kept(Tail(pieces))

_tokenize(t) == Kept(Split(Replace(t), 1, 1))

\* ------------------------------------------------------------- AST nodes

Variable(name) == [kind |-> "Variable", name |-> name]

Constant(name) == [kind |-> "Constant", name |-> name]

Predicate(name, terms) == [kind |-> "Predicate", name |-> name, terms |-> terms]

Negation(formula) == [kind |-> "Negation", formula |-> formula]

Conjunction(left, right) == [kind |-> "Conjunction", left |-> left, right |-> right]

Disjunction(left, right) == [kind |-> "Disjunction", left |-> left, right |-> right]

Implication(left, right) == [kind |-> "Implication", left |-> left, right |-> right]

Forall(variable, formula) == [kind |-> "Forall", variable |-> variable, formula |-> formula]

Exists(variable, formula) == [kind |-> "Exists", variable |-> variable, formula |-> formula]

BinaryKinds == {"Conjunction", "Disjunction", "Implication"}

QuantifierKinds == {"Forall", "Exists"}

\* ', '.join(map(str, terms)): the terms are Variable and Constant nodes,
\* whose __repr__ is the bare name
RECURSIVE JoinTerms(_)
JoinTerms(terms) ==
    IF terms = <<>> THEN <<>>
    ELSE IF Len(terms) = 1 THEN terms[1].name
    ELSE terms[1].name \o <<",", " ">> \o JoinTerms(Tail(terms))

\* the __repr__ of the node classes
RECURSIVE Repr(_)
Repr(f) ==
    CASE f.kind \in {"Variable", "Constant"} -> f.name
      [] f.kind = "Predicate" -> f.name \o <<"(">> \o JoinTerms(f.terms) \o <<")">>
      [] f.kind = "Negation" -> <<"~", "(">> \o Repr(f.formula) \o <<")">>
      [] f.kind = "Conjunction" ->
            <<"(">> \o Repr(f.left) \o <<" ", "&", " ">> \o Repr(f.right) \o <<")">>
      [] f.kind = "Disjunction" ->
            <<"(">> \o Repr(f.left) \o <<" ", "|", " ">> \o Repr(f.right) \o <<")">>
      [] f.kind = "Implication" ->
            <<"(">> \o Repr(f.left) \o <<" ", "-", ">", " ">> \o Repr(f.right) \o <<")">>
      [] f.kind = "Forall" ->
            <<"f", "o", "r", "a", "l", "l", " ">> \o Repr(f.variable)
                \o <<".", " ", "(">> \o Repr(f.formula) \o <<")">>
      [] f.kind = "Exists" ->
            <<"e", "x", "i", "s", "t", "s", " ">> \o Repr(f.variable)
                \o <<".", " ", "(">> \o Repr(f.formula) \o <<")">>

\* ------------------------------------------------------------ exceptions

\* The messages of the ParseErrors the parser raises, each with the names
\* of the values its f-string interpolates, in order.
MsgExpected == "Expected '{expected}' but found '{token}' at position {self.pos}"

MsgEndOfInput == "Unexpected end of input"

MsgAtEnd == "Unexpected token '{self._peek()}' at end of expression"

MsgUnknownOp == "Unknown binary operator: {op}"

MsgForFormula == "Unexpected token for a formula: {token}"

MsgLowerVar == "Expected a lowercase variable after quantifier, but got '{var_name}'"

MsgEndTerm == "Unexpected end of input, expected a term."

MsgInvalidTerm == "Invalid term: {token}"

ParseError(msg, args) == [type |-> "ParseError", msg |-> msg, args |-> args]

\* token[0] of a token that is None
TypeError == [type |-> "TypeError", msg |-> "'NoneType' object is not subscriptable",
              args |-> <<>>]

NoError == [type |-> "none", msg |-> "", args |-> <<>>]

\* ------------------------------------------------------ cursor and stack

\* FOLParser._peek with the cursor at p
PeekAt(p) == IF p < Len(tokens) THEN tokens[p + 1] ELSE None

_peek == PeekAt(pos)

\* truth value of a token or None
Truthy(token) == token # None

\* ConsumeError, with the position counted from one
ConsumeErrorOneBased(expected) ==
    IF Truthy(expected) /\ _peek # expected
    THEN ParseError(MsgExpected, <<expected, _peek, pos + 1>>)
    ELSE IF _peek = None THEN ParseError(MsgEndOfInput, <<>>)
    ELSE NoError

\* FOLParser._consume(expected) fails: the error it raises, NoError when
\* it succeeds (it then advances the cursor by one)
ConsumeError(expected) ==
    IF Truthy(expected) /\ _peek # expected
    THEN ParseError(MsgExpected, <<expected, _peek, pos>>)
    ELSE IF _peek = None THEN ParseError(MsgEndOfInput, <<>>)
    ELSE NoError

Top == stack[Len(stack)]

Running(fn, pc) ==
    /\ status = "running"
    /\ stack # <<>>
    /\ Top.fn = fn
    /\ Top.pc = pc

\* the frame of a call made with the cursor at p
Frame(fn, pc, p) ==
    CASE fn = "parse" -> [fn |-> fn, pc |-> pc, entry |-> p, formula |-> None]
      [] fn = "parse_formula" ->
            [fn |-> fn, pc |-> pc, entry |-> p, left |-> None, op |-> None,
             right |-> None, value |-> None]
      [] fn = "parse_quantifier" ->
            [fn |-> fn, pc |-> pc, entry |-> p, quantifier_type |-> None,
             variable |-> None, formula |-> None]
      [] fn = "parse_predicate" ->
            [fn |-> fn, pc |-> pc, entry |-> p, name |-> None, terms |-> <<>>]
      [] fn = "parse_term" -> [fn |-> fn, pc |-> pc, entry |-> p]

\* the top frame replaced by frame
SetTop(frame) == [stack EXCEPT ![Len(stack)] = frame]

\* the top frame replaced by frame, which calls fn with the cursor at p
Call(frame, fn, pc, p) == Append(SetTop(frame), Frame(fn, pc, p))

\* Receive, with a term put before the terms parsed so far
ReceivePrepending(frame, v) ==
    CASE frame.pc = "107" -> [frame EXCEPT !.formula = v, !.pc = "108"]
      [] frame.pc = "116" -> [frame EXCEPT !.left = v, !.pc = "117"]
      [] frame.pc = "118" -> [frame EXCEPT !.right = v, !.pc = "119"]
      [] frame.pc = "130" -> [frame EXCEPT !.value = Negation(v), !.pc = "return"]
      [] frame.pc = "132" -> [frame EXCEPT !.value = v, !.pc = "return"]
      [] frame.pc = "134" -> [frame EXCEPT !.value = v, !.pc = "return"]
      [] frame.pc = "145" -> [frame EXCEPT !.formula = v, !.pc = "146"]
      [] frame.pc = "157" -> [frame EXCEPT !.terms = <<v>> \o @, !.pc = "158"]

\* The caller's frame once the call it waits on has returned v: the
\* statement that made the call uses the value and the caller goes on.
Receive(frame, v) ==
    CASE frame.pc = "107" -> [frame EXCEPT !.formula = v, !.pc = "108"]
      [] frame.pc = "116" -> [frame EXCEPT !.left = v, !.pc = "117"]
      [] frame.pc = "118" -> [frame EXCEPT !.right = v, !.pc = "119"]
      [] frame.pc = "130" -> [frame EXCEPT !.value = Negation(v), !.pc = "return"]
      [] frame.pc = "132" -> [frame EXCEPT !.value = v, !.pc = "return"]
      [] frame.pc = "134" -> [frame EXCEPT !.value = v, !.pc = "return"]
      [] frame.pc = "145" -> [frame EXCEPT !.formula = v, !.pc = "146"]
      [] frame.pc = "157" -> [frame EXCEPT !.terms = Append(@, v), !.pc = "158"]

\* The top frame returns v with the cursor at p: to its caller or, from
\* parse, to the caller of the parser.
Return(v, p) ==
    /\ pos' = p
    /\ IF Len(stack) = 1
       THEN /\ stack' = <<>>
            /\ status' = "returned"
            /\ result' = v
       ELSE /\ stack' = Append(SubSeq(stack, 1, Len(stack) - 2),
                               Receive(stack[Len(stack) - 1], v))
            /\ UNCHANGED <<status, result>>
    /\ UNCHANGED <<text, tokens, error, round, first, other>>

\* The top frame raises e with the cursor at p.
Raise(e, p) ==
    /\ pos' = p
    /\ status' = "raising"
    /\ error' = e
    /\ UNCHANGED <<text, tokens, stack, result, round, first, other>>

\* The top frame goes on as frame, or calls, with the cursor at p.
Step(newstack, p) ==
    /\ pos' = p
    /\ stack' = newstack
    /\ UNCHANGED <<text, tokens, status, result, error, round, first, other>>

\* ---------------------------------------------------------------- tokens

LPAREN == <<"(">>

RPAREN == <<")">>

DOT == <<".">>

COMMA == <<",">>

NEG == <<"~">>

AND == <<"&">>

OR == <<"|">>

IMPLIES == <<"-", ">">>

FORALL == <<"f", "o", "r", "a", "l", "l">>

EXISTS == <<"e", "x", "i", "s", "t", "s">>

\* --------------------------------------------------------------- actions

\* FOLParser.__init__
Construct ==
    /\ status = "new"
    /\ tokens' = _tokenize(text)
    /\ pos' = 0
    /\ status' = "ready"
    /\ UNCHANGED <<text, stack, result, error, round, first, other>>

\* FOLParser.parse is called: formula = self.parse_formula()
CallParse ==
    /\ status = "ready"
    /\ status' = "running"
    /\ stack' = <<Frame("parse", "107", pos), Frame("parse_formula", "113", pos)>>
    /\ UNCHANGED <<text, tokens, pos, result, error, round, first, other>>

\* ParseFinish, without the check for leftover tokens
ParseFinishUnchecked ==
    /\ Running("parse", "108")
    /\ Return(Top.formula, pos)

\* parse: the check for leftover tokens, and the return
ParseFinish ==
    /\ Running("parse", "108")
    /\ \/ /\ pos < Len(tokens)
          /\ Raise(ParseError(MsgAtEnd, <<_peek>>), pos)
       \/ /\ ~(pos < Len(tokens))
          /\ Return(Top.formula, pos)

\* parse_formula, token == '(': consume it and parse the left formula
FormulaParen ==
    /\ Running("parse_formula", "113")
    /\ _peek = LPAREN
    /\ Step(Call([Top EXCEPT !.pc = "116"], "parse_formula", "113", pos + 1), pos + 1)
\* FormulaNegation, with the '~' left where it is
FormulaNegationInPlace ==
    /\ Running("parse_formula", "113")
    /\ _peek = NEG
    /\ Step(Call([Top EXCEPT !.pc = "130"], "parse_formula", "113", pos), pos)

\* parse_formula, token == '~': consume it and parse the operand
FormulaNegation ==
    /\ Running("parse_formula", "113")
    /\ _peek = NEG
    /\ Step(Call([Top EXCEPT !.pc = "130"], "parse_formula", "113", pos + 1), pos + 1)

\* parse_formula, token in ('forall', 'exists')
FormulaQuantifier ==
    /\ Running("parse_formula", "113")
    /\ _peek \in {FORALL, EXISTS}
    /\ Step(Call([Top EXCEPT !.pc = "132"], "parse_quantifier", "139", pos), pos)

\* parse_formula, token and token[0].isupper()
FormulaPredicate ==
    /\ Running("parse_formula", "113")
    /\ _peek \notin {LPAREN, NEG, FORALL, EXISTS}
    /\ Truthy(_peek)
    /\ IsUpper(<<_peek[1]>>)
    /\ Step(Call([Top EXCEPT !.pc = "134"], "parse_predicate", "152", pos), pos)
\* FormulaUnexpected, with the unexpected token skipped
FormulaUnexpectedSkipping ==
    /\ Running("parse_formula", "113")
    /\ _peek \notin {LPAREN, NEG, FORALL, EXISTS}
    /\ ~(Truthy(_peek) /\ IsUpper(<<_peek[1]>>))
    /\ Raise(ParseError(MsgForFormula, <<_peek>>),
             IF pos < Len(tokens) THEN pos + 1 ELSE pos)

\* parse_formula, no branch applies
FormulaUnexpected ==
    /\ Running("parse_formula", "113")
    /\ _peek \notin {LPAREN, NEG, FORALL, EXISTS}
    /\ ~(Truthy(_peek) /\ IsUpper(<<_peek[1]>>))
    /\ Raise(ParseError(MsgForFormula, <<_peek>>), pos)
\* FormulaOperator, with the operator checked as soon as it is consumed
FormulaOperatorEager ==
    /\ Running("parse_formula", "117")
    /\ \/ /\ ConsumeError(None) # NoError
          /\ Raise(ConsumeError(None), pos)
       \/ /\ ConsumeError(None) = NoError
          /\ _peek \notin {AND, OR, IMPLIES}
          /\ Raise(ParseError(MsgUnknownOp, <<_peek>>), pos + 1)
       \/ /\ ConsumeError(None) = NoError
          /\ _peek \in {AND, OR, IMPLIES}
          /\ Step(Call([Top EXCEPT !.op = _peek, !.pc = "118"],
                       "parse_formula", "113", pos + 1), pos + 1)

\* parse_formula: op = self._consume(), then parse the right formula
FormulaOperator ==
    /\ Running("parse_formula", "117")
    /\ \/ /\ ConsumeError(None) # NoError
          /\ Raise(ConsumeError(None), pos)
       \/ /\ ConsumeError(None) = NoError
          /\ Step(Call([Top EXCEPT !.op = _peek, !.pc = "118"],
                       "parse_formula", "113", pos + 1), pos + 1)

\* parse_formula: self._consume(')'), then the node of the operator
FormulaClose ==
    /\ Running("parse_formula", "119")
    /\ \/ /\ ConsumeError(RPAREN) # NoError
          /\ Raise(ConsumeError(RPAREN), pos)
       \/ /\ ConsumeError(RPAREN) = NoError
          /\ Top.op = AND
          /\ Return(Conjunction(Top.left, Top.right), pos + 1)
       \/ /\ ConsumeError(RPAREN) = NoError
          /\ Top.op = OR
          /\ Return(Disjunction(Top.left, Top.right), pos + 1)
       \/ /\ ConsumeError(RPAREN) = NoError
          /\ Top.op = IMPLIES
          /\ Return(Implication(Top.left, Top.right), pos + 1)
       \/ /\ ConsumeError(RPAREN) = NoError
          /\ Top.op \notin {AND, OR, IMPLIES}
          /\ Raise(ParseError(MsgUnknownOp, <<Top.op>>), pos + 1)

\* parse_formula returns what the production it called returned
FormulaReturn ==
    /\ Running("parse_formula", "return")
    /\ Return(Top.value, pos)

\* parse_quantifier: quantifier_type = self._consume()
QuantifierKeyword ==
    /\ Running("parse_quantifier", "139")
    /\ IF ConsumeError(None) # NoError
       THEN Raise(ConsumeError(None), pos)
       ELSE Step(SetTop([Top EXCEPT !.quantifier_type = _peek, !.pc = "140"]), pos + 1)

\* parse_quantifier: var_name = self._consume() and the islower() check
QuantifierVariable ==
    /\ Running("parse_quantifier", "140")
    /\ \/ /\ ConsumeError(None) # NoError
          /\ Raise(ConsumeError(None), pos)
       \/ /\ ConsumeError(None) = NoError
          /\ ~IsLower(_peek)
          /\ Raise(ParseError(MsgLowerVar, <<_peek>>), pos + 1)
       \/ /\ ConsumeError(None) = NoError
          /\ IsLower(_peek)
          /\ Step(SetTop([Top EXCEPT !.variable = Variable(_peek), !.pc = "144"]), pos + 1)

\* QuantifierDot, with the '.' optional
QuantifierDotOptional ==
    /\ Running("parse_quantifier", "144")
    /\ IF _peek = DOT
       THEN Step(Call([Top EXCEPT !.pc = "145"], "parse_formula", "113", pos + 1), pos + 1)
       ELSE Step(Call([Top EXCEPT !.pc = "145"], "parse_formula", "113", pos), pos)

\* parse_quantifier: self._consume('.'), then parse the body
QuantifierDot ==
    /\ Running("parse_quantifier", "144")
    /\ \/ /\ ConsumeError(DOT) # NoError
          /\ Raise(ConsumeError(DOT), pos)
       \/ /\ ConsumeError(DOT) = NoError
          /\ Step(Call([Top EXCEPT !.pc = "145"], "parse_formula", "113", pos + 1), pos + 1)

\* parse_quantifier: the node of the quantifier
QuantifierReturn ==
    /\ Running("parse_quantifier", "146")
    /\ \/ /\ Top.quantifier_type = FORALL
          /\ Return(Forall(Top.variable, Top.formula), pos)
       \/ /\ Top.quantifier_type # FORALL
          /\ Return(Exists(Top.variable, Top.formula), pos)

\* parse_predicate: name = self._consume()
PredicateName ==
    /\ Running("parse_predicate", "152")
    /\ IF ConsumeError(None) # NoError
       THEN Raise(ConsumeError(None), pos)
       ELSE Step(SetTop([Top EXCEPT !.name = _peek, !.pc = "153"]), pos + 1)

\* parse_predicate: self._consume('('), terms = [], and the first term
\* unless ')' follows
PredicateOpen ==
    /\ Running("parse_predicate", "153")
    /\ \/ /\ ConsumeError(LPAREN) # NoError
          /\ Raise(ConsumeError(LPAREN), pos)
       \/ /\ ConsumeError(LPAREN) = NoError
          /\ PeekAt(pos + 1) # RPAREN
          /\ Step(Call([Top EXCEPT !.terms = <<>>, !.pc = "157"],
                       "parse_term", "165", pos + 1), pos + 1)
       \/ /\ ConsumeError(LPAREN) = NoError
          /\ PeekAt(pos + 1) = RPAREN
          /\ Step(SetTop([Top EXCEPT !.terms = <<>>, !.pc = "161"]), pos + 1)

\* parse_predicate, after a term: leave the loop at ')', else
\* self._consume(',') and the next term
PredicateNext ==
    /\ Running("parse_predicate", "158")
    /\ \/ /\ _peek = RPAREN
          /\ Step(SetTop([Top EXCEPT !.pc = "161"]), pos)
       \/ /\ _peek # RPAREN
          /\ ConsumeError(COMMA) # NoError
          /\ Raise(ConsumeError(COMMA), pos)
       \/ /\ _peek # RPAREN
          /\ ConsumeError(COMMA) = NoError
          /\ Step(Call([Top EXCEPT !.pc = "157"], "parse_term", "165", pos + 1), pos + 1)

\* parse_predicate: self._consume(')') and the node
PredicateClose ==
    /\ Running("parse_predicate", "161")
    /\ IF ConsumeError(RPAREN) # NoError
       THEN Raise(ConsumeError(RPAREN), pos)
       ELSE Return(Predicate(Top.name, Top.terms), pos + 1)

\* Term, without the check for the end of the input
TermUnchecked ==
    /\ Running("parse_term", "165")
    /\ IF _peek = None THEN Raise(TypeError, pos)
       ELSE \/ /\ IsLower(<<_peek[1]>>)
               /\ Return(Variable(_peek), pos + 1)
            \/ /\ ~IsLower(<<_peek[1]>>)
               /\ IsUpper(<<_peek[1]>>)
               /\ Return(Constant(_peek), pos + 1)
            \/ /\ ~IsLower(<<_peek[1]>>)
               /\ ~IsUpper(<<_peek[1]>>)
               /\ Raise(ParseError(MsgInvalidTerm, <<_peek>>), pos)

\* parse_term
Term ==
    /\ Running("parse_term", "165")
    /\ IF ~Truthy(_peek) THEN Raise(ParseError(MsgEndTerm, <<>>), pos)
       ELSE IF _peek = None THEN Raise(TypeError, pos)
       ELSE \/ /\ IsLower(<<_peek[1]>>)
               /\ Return(Variable(_peek), pos + 1)
            \/ /\ ~IsLower(<<_peek[1]>>)
               /\ IsUpper(<<_peek[1]>>)
               /\ Return(Constant(_peek), pos + 1)
            \/ /\ ~IsLower(<<_peek[1]>>)
               /\ ~IsUpper(<<_peek[1]>>)
               /\ Raise(ParseError(MsgInvalidTerm, <<_peek>>), pos)

\* An exception leaves the frame it was raised in or passed to: no method
\* of the parser has a try statement, so every frame lets it through,
\* and from parse it reaches the caller of the parser.
Propagate ==
    /\ status = "raising"
    /\ stack' = SubSeq(stack, 1, Len(stack) - 1)
    /\ status' = IF Len(stack) = 1 THEN "raised" ELSE "raising"
    /\ UNCHANGED <<text, tokens, pos, result, error, round, first, other>>

\* ---------------------------------------------------------------- inputs

\* formulas_to_test and fail_formula of the example usage
\* "forall x. (P(x) -> Q(x, A))"
Example1 ==
    <<"f", "o", "r", "a", "l", "l", " ", "x", ".", " ", "(", "P", "(", "x",
      ")", " ", "-", ">", " ", "Q", "(", "x", ",", " ", "A", ")", ")">>

\* "exists y. ~(P(y) & Q(y))"
Example2 ==
    <<"e", "x", "i", "s", "t", "s", " ", "y", ".", " ", "~", "(", "P", "(",
      "y", ")", " ", "&", " ", "Q", "(", "y", ")", ")">>

\* "( (forall x. P(x)) | (exists y. Q(y)) )"
Example3 ==
    <<"(", " ", "(", "f", "o", "r", "a", "l", "l", " ", "x", ".", " ", "P",
      "(", "x", ")", ")", " ", "|", " ", "(", "e", "x", "i", "s", "t", "s",
      " ", "y", ".", " ", "Q", "(", "y", ")", ")", " ", ")">>

\* "R(B, z)"
Example4 ==
    <<"R", "(", "B", ",", " ", "z", ")">>

\* "forall x P(x)"
FailFormula ==
    <<"f", "o", "r", "a", "l", "l", " ", "x", " ", "P", "(", "x", ")">>

Examples == {Example1, Example2, Example3, Example4, FailFormula}

\* further texts: the failures and the shapes the properties below name
\* "P(x) & Q(x)"
Unparenthesized ==
    <<"P", "(", "x", ")", " ", "&", " ", "Q", "(", "x", ")">>

\* "forall x. P(x) & Q(x)"
QuantifiedUnparenthesized ==
    <<"f", "o", "r", "a", "l", "l", " ", "x", ".", " ", "P", "(", "x", ")",
      " ", "&", " ", "Q", "(", "x", ")">>

\* "(P(x) & Q(x)"
MissingClose ==
    <<"(", "P", "(", "x", ")", " ", "&", " ", "Q", "(", "x", ")">>

\* "~P(x)"
NegatedPredicate ==
    <<"~", "P", "(", "x", ")">>

\* "(P(x) x Q(x))"
BadOperator ==
    <<"(", "P", "(", "x", ")", " ", "x", " ", "Q", "(", "x", ")", ")">>

\* "(P(x) x )"
BadOperatorNoRight ==
    <<"(", "P", "(", "x", ")", " ", "x", " ", ")">>

\* "forall"
OnlyQuantifier ==
    <<"f", "o", "r", "a", "l", "l">>

\* "P"
OnlyName ==
    <<"P">>

Further ==
    {Unparenthesized, QuantifiedUnparenthesized, MissingClose, NegatedPredicate,
     BadOperator, BadOperatorNoRight, OnlyQuantifier, OnlyName}

\* the longest text over CharAlphabet and the longest sequence of tokens
\* of TokenAlphabet the parser is given
MaxChars == 3

MaxTokens == 4

CharAlphabet == {"(", ")", ".", ",", "~", "-", ">", "x", "A", "1", "_", " ", "e-acute"}

TokenAlphabet == {LPAREN, RPAREN, DOT, COMMA, NEG, AND, FORALL, <<"x">>, <<"P">>}

\* the tokens an edit of an example puts in
EditTokens ==
    {LPAREN, RPAREN, DOT, COMMA, NEG, OR, IMPLIES, EXISTS, <<"y">>, <<"Q">>,
     <<"_">>, <<"e-acute">>, <<"E-acute">>}

\* the sequences over S of length at most n
SeqsUpTo(S, n) == UNION {[1..k -> S] : k \in 0..n}

\* the tokens, one space between two
RECURSIVE Spaced(_)
Spaced(toks) ==
    IF toks = <<>> THEN <<>>
    ELSE IF Len(toks) = 1 THEN toks[1]
    ELSE toks[1] \o <<" ">> \o Spaced(Tail(toks))

\* toks with one token replaced, removed or put in, or cut short
Edits(toks) ==
    LET n == Len(toks)
    IN  {toks}
        \cup {SubSeq(toks, 1, i) : i \in 0..n}
        \cup {SubSeq(toks, 1, i - 1) \o SubSeq(toks, i + 1, n) : i \in 1..n}
        \cup {[toks EXCEPT ![i] = t] : i \in 1..n, t \in EditTokens}
        \cup {SubSeq(toks, 1, i) \o <<t>> \o SubSeq(toks, i + 1, n) :
                i \in 0..n, t \in EditTokens}

Texts ==
    SeqsUpTo(CharAlphabet, MaxChars)
    \cup {Spaced(toks) : toks \in SeqsUpTo(TokenAlphabet, MaxTokens)}
    \cup Examples
    \cup Further
    \cup {Spaced(toks) : toks \in UNION {Edits(_tokenize(e)) : e \in Examples \cup Further}}

\* --------------------------------------------------------- specification

Init ==
    /\ text \in Texts
    /\ tokens = <<>>
    /\ pos = 0
    /\ stack = <<>>
    /\ status = "new"
    /\ result = None
    /\ error = NoError
    /\ round = 1
    /\ first = None
    /\ other = None

\* the steps of a parse
ParseStep ==
    \/ CallParse
    \/ ParseFinish
    \/ FormulaParen
    \/ FormulaNegation
    \/ FormulaQuantifier
    \/ FormulaPredicate
    \/ FormulaUnexpected
    \/ FormulaOperator
    \/ FormulaClose
    \/ FormulaReturn
    \/ QuantifierKeyword
    \/ QuantifierVariable
    \/ QuantifierDot
    \/ QuantifierReturn
    \/ PredicateName
    \/ PredicateOpen
    \/ PredicateNext
    \/ PredicateClose
    \/ Term
    \/ Propagate

Next ==
    \/ Construct
    \/ ParseStep

Spec == Init /\ [][Next]_vars

\* The round trip of the canonical rendering: the formula a parse returned
\* is rendered by its __repr__, and a new parser is made for the rendering.
Rerender ==
    /\ status = "returned"
    /\ round = 1
    /\ first' = result
    /\ text' = Repr(result)
    /\ round' = 2
    /\ tokens' = <<>>
    /\ pos' = 0
    /\ status' = "new"
    /\ result' = None
    /\ UNCHANGED <<stack, error, other>>

RoundTripNext ==
    \/ Next
    \/ Rerender

RoundTripSpec == Init /\ [][RoundTripNext]_vars

\* The interpreter runs the one thread of a parse without stopping: a step
\* of the parse that can be taken is taken.
FairSpec == Spec /\ WF_vars(ParseStep)

\* Two parsers.  tokens and pos are attributes of the instance a method is
\* called on (self.tokens, self.pos), and the locals of a call are in the
\* frames of the thread that makes it: the parser has no class attribute
\* and no global.  text .. error are those of the instance whose thread
\* runs, other holds those of the instance whose thread waits.
Instance ==
    [text |-> text, tokens |-> tokens, pos |-> pos, stack |-> stack,
     status |-> status, result |-> result, error |-> error]

\* an instance not yet constructed, for the text t
NewInstance(t) ==
    [text |-> t, tokens |-> <<>>, pos |-> 0, stack |-> <<>>,
     status |-> "new", result |-> None, error |-> NoError]

\* the texts two parsers are given
PairTexts == Examples \cup Further

PairInit ==
    /\ text \in PairTexts
    /\ tokens = <<>>
    /\ pos = 0
    /\ stack = <<>>
    /\ status = "new"
    /\ result = None
    /\ error = NoError
    /\ round = 1
    /\ first = None
    /\ other \in {NewInstance(t) : t \in PairTexts}

\* Switch, with one cursor for both instances, as a class attribute
\* would be
SwitchSharedCursor ==
    /\ round = 1
    /\ other # None
    /\ text' = other.text
    /\ tokens' = other.tokens
    /\ pos' = pos
    /\ stack' = other.stack
    /\ status' = other.status
    /\ result' = other.result
    /\ error' = other.error
    /\ other' = Instance
    /\ UNCHANGED <<round, first>>

\* The interpreter switches threads between two steps: the instance that
\* ran waits, the one that waited runs on, each with its own attributes
\* and its own frames.
Switch ==
    /\ round = 1
    /\ other # None
    /\ text' = other.text
    /\ tokens' = other.tokens
    /\ pos' = other.pos
    /\ stack' = other.stack
    /\ status' = other.status
    /\ result' = other.result
    /\ error' = other.error
    /\ other' = Instance
    /\ UNCHANGED <<round, first>>

\* Both parses have ended: one of the two texts is parsed again by a new
\* parser that runs alone, as each formula of the example usage is; first
\* keeps what the interleaved parse of that text ended with.
ParseAlone ==
    /\ round = 1
    /\ other # None
    /\ status \in {"returned", "raised"}
    /\ other.status \in {"returned", "raised"}
    /\ \E k \in {Instance, other} :
          /\ first' = k
          /\ text' = k.text
    /\ tokens' = <<>>
    /\ pos' = 0
    /\ stack' = <<>>
    /\ status' = "new"
    /\ result' = None
    /\ error' = NoError
    /\ round' = 2
    /\ other' = None

PairNext ==
    \/ Construct
    \/ ParseStep
    \/ Switch
    \/ ParseAlone

PairSpec == PairInit /\ [][PairNext]_vars

\* ----------------------------------------------------------- the grammar
\*   formula    := '(' formula binop formula ')' | '~' formula
\*               | quantifier | predicate
\*   binop      := '&' | '|' | '->'
\*   quantifier := ('forall'|'exists') lower_ident '.' formula
\*   predicate  := upper_ident '(' [ term (',' term)* ] ')'
\*   term       := lower_ident | upper_ident

\* [a-z][a-z0-9]*
IsLowerIdent(t) ==
    /\ t # <<>>
    /\ t[1] \in LowerAZ
    /\ \A i \in 2..Len(t) : t[i] \in LowerAZ \cup Digits

\* [A-Z][A-Z0-9]*
IsUpperIdent(t) ==
    /\ t # <<>>
    /\ t[1] \in UpperAZ
    /\ \A i \in 2..Len(t) : t[i] \in UpperAZ \cup Digits

BinaryOperators == {AND, OR, IMPLIES}

Punctuation == {LPAREN, RPAREN, DOT, COMMA, NEG, AND, OR, IMPLIES}

LegalToken(t) == t \in Punctuation \/ IsLowerIdent(t) \/ IsUpperIdent(t)

AllLegal(toks) == \A i \in 1..Len(toks) : LegalToken(toks[i])

\* s is term (',' term)*
IsTermList(s) ==
    /\ Len(s) % 2 = 1
    /\ \A i \in 1..Len(s) :
          IF i % 2 = 1 THEN IsLowerIdent(s[i]) \/ IsUpperIdent(s[i]) ELSE s[i] = COMMA

\* s is derivable from formula
RECURSIVE Derivable(_)
Derivable(s) ==
    LET n == Len(s)
    IN  \/ /\ n >= 5
           /\ s[1] = LPAREN
           /\ s[n] = RPAREN
           /\ \E k \in 3..(n - 2) :
                 /\ s[k] \in BinaryOperators
                 /\ Derivable(SubSeq(s, 2, k - 1))
                 /\ Derivable(SubSeq(s, k + 1, n - 1))
        \/ /\ n >= 2
           /\ s[1] = NEG
           /\ Derivable(Tail(s))
        \/ /\ n >= 4
           /\ s[1] \in {FORALL, EXISTS}
           /\ IsLowerIdent(s[2])
           /\ s[3] = DOT
           /\ Derivable(SubSeq(s, 4, n))
        \/ /\ n >= 3
           /\ IsUpperIdent(s[1])
           /\ s[2] = LPAREN
           /\ s[n] = RPAREN
           /\ (n = 3 \/ IsTermList(SubSeq(s, 3, n - 1)))

\* the tokens of the terms of a predicate, commas between
RECURSIVE TermsYield(_)
TermsYield(terms) ==
    IF terms = <<>> THEN <<>>
    ELSE IF Len(terms) = 1 THEN <<terms[1].name>>
    ELSE <<terms[1].name, COMMA>> \o TermsYield(Tail(terms))

\* the token sequence a tree derives, production by production
RECURSIVE Yield(_)
Yield(f) ==
    CASE f.kind \in {"Variable", "Constant"} -> <<f.name>>
      [] f.kind = "Predicate" -> <<f.name, LPAREN>> \o TermsYield(f.terms) \o <<RPAREN>>
      [] f.kind = "Negation" -> <<NEG>> \o Yield(f.formula)
      [] f.kind = "Conjunction" ->
            <<LPAREN>> \o Yield(f.left) \o <<AND>> \o Yield(f.right) \o <<RPAREN>>
      [] f.kind = "Disjunction" ->
            <<LPAREN>> \o Yield(f.left) \o <<OR>> \o Yield(f.right) \o <<RPAREN>>
      [] f.kind = "Implication" ->
            <<LPAREN>> \o Yield(f.left) \o <<IMPLIES>> \o Yield(f.right) \o <<RPAREN>>
      [] f.kind = "Forall" -> <<FORALL, f.variable.name, DOT>> \o Yield(f.formula)
      [] f.kind = "Exists" -> <<EXISTS, f.variable.name, DOT>> \o Yield(f.formula)

\* f has the shape of a tree of the grammar: every node with its children,
\* terms only under predicates
RECURSIVE IsTree(_)
IsTree(f) ==
    CASE f.kind = "Predicate" ->
            \A i \in 1..Len(f.terms) : f.terms[i].kind \in {"Variable", "Constant"}
      [] f.kind = "Negation" -> IsTree(f.formula)
      [] f.kind \in BinaryKinds -> IsTree(f.left) /\ IsTree(f.right)
      [] f.kind \in QuantifierKinds -> f.variable.kind = "Variable" /\ IsTree(f.formula)
      [] OTHER -> FALSE

\* f is a derivation tree of the grammar: its identifiers have the shapes
\* of their productions
RECURSIVE IsDerivation(_)
IsDerivation(f) ==
    CASE f.kind = "Predicate" ->
            /\ IsUpperIdent(f.name)
            /\ \A i \in 1..Len(f.terms) :
                  \/ f.terms[i].kind = "Variable" /\ IsLowerIdent(f.terms[i].name)
                  \/ f.terms[i].kind = "Constant" /\ IsUpperIdent(f.terms[i].name)
      [] f.kind = "Negation" -> IsDerivation(f.formula)
      [] f.kind \in BinaryKinds -> IsDerivation(f.left) /\ IsDerivation(f.right)
      [] f.kind \in QuantifierKinds ->
            /\ f.variable.kind = "Variable"
            /\ IsLowerIdent(f.variable.name)
            /\ IsDerivation(f.formula)
      [] OTHER -> FALSE

Done == status \in {"returned", "raised"}

\* ---------------------------------------------------------------- claims

\* C2: on a token sequence of legal tokens, parse returns exactly when the
\* whole sequence is derivable from the grammar, and what it returns is the
\* derivation tree (node kind per production, the arguments of a predicate
\* in source order); on every other sequence it raises ParseError.  The
\* first example yields Forall(x, Implication(P(x), Q(x, A))), and
\* 'R(B, z)' yields the predicate R with the terms Constant B, Variable z.
C2_GrammarConformance ==
    /\ (status = "returned" /\ AllLegal(tokens)) =>
          /\ Derivable(tokens)
          /\ IsDerivation(result)
          /\ Yield(result) = tokens
    /\ (status = "raised" /\ AllLegal(tokens)) =>
          /\ ~Derivable(tokens)
          /\ error.type = "ParseError"
    /\ (Done /\ text = Example1) =>
          /\ status = "returned"
          /\ result = Forall(Variable(<<"x">>),
                             Implication(Predicate(<<"P">>, <<Variable(<<"x">>)>>),
                                         Predicate(<<"Q">>, <<Variable(<<"x">>),
                                                              Constant(<<"A">>)>>)))
    /\ (Done /\ text = Example4) =>
          /\ status = "returned"
          /\ result = Predicate(<<"R">>, <<Constant(<<"B">>), Variable(<<"z">>)>>)

C2_Witness ==
    /\ status = "returned"
    /\ text = Example1
    /\ AllLegal(tokens)
    /\ result.kind = "Forall"
    /\ result.formula.kind = "Implication"

\* C3: parse returns a formula only with the cursor at the end of the
\* tokens, after exactly one formula; when a token is left after the first
\* complete formula, as in 'P(x) & Q(x)' and 'forall x. P(x) & Q(x)', it
\* raises the "unexpected token at end of expression" error and returns
\* nothing.
C3_FullConsumption ==
    /\ [](status = "returned" => (pos = Len(tokens) /\ Yield(result) = tokens))
    /\ [][(Running("parse", "108") /\ pos < Len(tokens)) =>
             /\ Yield(Top.formula) = SubSeq(tokens, 1, pos)
             /\ status' = "raising"
             /\ error' = ParseError(MsgAtEnd, <<tokens[pos + 1]>>)
             /\ result' = None]_vars
    /\ []((Done /\ text \in {Unparenthesized, QuantifiedUnparenthesized}) =>
             /\ status = "raised"
             /\ error = ParseError(MsgAtEnd, <<AND>>)
             /\ result = None)

C3_Witness ==
    /\ status = "raised"
    /\ text = Unparenthesized
    /\ error.msg = MsgAtEnd
    /\ pos = 4
    /\ pos < Len(tokens)

\* the names of the values a message interpolates, in order
Slots(msg) ==
    CASE msg = MsgExpected -> <<"expected", "token", "self.pos">>
      [] msg = MsgEndOfInput -> <<>>
      [] msg = MsgAtEnd -> <<"self._peek()">>
      [] msg = MsgUnknownOp -> <<"op">>
      [] msg = MsgForFormula -> <<"token">>
      [] msg = MsgLowerVar -> <<"var_name">>
      [] msg = MsgEndTerm -> <<>>
      [] msg = MsgInvalidTerm -> <<"token">>
      [] OTHER -> <<>>

\* the error tells the index of a token
ReportsPosition(e) == \E i \in 1..Len(Slots(e.msg)) : Slots(e.msg)[i] = "self.pos"

Failed == status \in {"raising", "raised"}

C4_WitnessNoPosition ==
    /\ status = "raised"
    /\ error.msg = MsgLowerVar
    /\ ~ReportsPosition(error)

\* a quantifier keyword at index e, a lowercase bound variable, and then a
\* token that is not '.'
MissingDot(e) ==
    /\ e + 3 <= Len(tokens)
    /\ tokens[e + 1] \in {FORALL, EXISTS}
    /\ IsLower(tokens[e + 2])
    /\ tokens[e + 3] # DOT

\* C5: when a quantifier keyword is followed by a lowercase bound variable
\* and a token that is not '.', the quantifier never gets to its body: the
\* parse fails with the mismatch error that expected '.', names the
\* offending token and reports its index, the index of the first token
\* after the bound variable.  For 'forall x P(x)' that is 'P' at index 2.
C5_MissingDot ==
    /\ \A i \in 1..Len(stack) :
          (stack[i].fn = "parse_quantifier" /\ MissingDot(stack[i].entry)) =>
             /\ i = Len(stack)
             /\ stack[i].pc \in {"139", "140", "144"}
             /\ status # "running" =>
                   /\ status = "raising"
                   /\ pos = stack[i].entry + 2
                   /\ error = ParseError(MsgExpected, <<DOT, tokens[pos + 1], pos>>)
    /\ (Done /\ text = FailFormula) =>
          /\ status = "raised"
          /\ tokens[3] = <<"P">>
          /\ error = ParseError(MsgExpected, <<DOT, <<"P">>, 2>>)

C5_Witness ==
    /\ status = "raising"
    /\ stack # <<>>
    /\ Top.fn = "parse_quantifier"
    /\ MissingDot(Top.entry)
    /\ Top.entry > 0
    /\ error.msg = MsgExpected

C5_WitnessFailFormula ==
    /\ status = "raised"
    /\ text = FailFormula
    /\ error.args = <<DOT, <<"P">>, 2>>

\* C6: a parse has two outcomes and no other: it returns a complete
\* formula, one tree that derives all the tokens, or it raises ParseError
\* and returns nothing.  No other error is raised, the parse never stops
\* anywhere else, and once an error is raised no token is consumed any
\* more.  The empty text, a text that ends inside a production and a text
\* that ends after a quantifier keyword or a predicate name all end in a
\* ParseError.
C6_ReturnsOrRaises ==
    /\ [](status = "returned" =>
             /\ error = NoError
             /\ stack = <<>>
             /\ IsTree(result)
             /\ Yield(result) = tokens)
    /\ [](Failed => (error.type = "ParseError" /\ result = None))
    /\ [](status \in {"ready", "running", "raising"} => ENABLED ParseStep)
    /\ [][Failed =>
             /\ Failed'
             /\ pos' = pos
             /\ tokens' = tokens
             /\ error' = error
             /\ result' = result]_vars
    /\ []((Done /\ text = <<>>) =>
             (status = "raised" /\ error = ParseError(MsgForFormula, <<None>>)))
    /\ []((Done /\ text = MissingClose) =>
             (status = "raised" /\ error = ParseError(MsgExpected, <<RPAREN, None, 10>>)))
    /\ []((Done /\ text = OnlyQuantifier) =>
             (status = "raised" /\ error = ParseError(MsgEndOfInput, <<>>)))
    /\ []((Done /\ text = OnlyName) =>
             (status = "raised" /\ error = ParseError(MsgExpected, <<LPAREN, None, 1>>)))

C6_Witness ==
    /\ status = "raised"
    /\ text = MissingClose
    /\ error.type = "ParseError"
    /\ result = None
    /\ pos = 10

\* the characters of the tokens, in order
RECURSIVE Flatten(_)
Flatten(toks) == IF toks = <<>> THEN <<>> ELSE Head(toks) \o Flatten(Tail(toks))

\* t without its whitespace
RECURSIVE NonSpace(_)
NonSpace(t) ==
    IF t = <<>> THEN <<>>
    ELSE (IF Head(t) \in Whitespace THEN <<>> ELSE <<Head(t)>>) \o NonSpace(Tail(t))

\* no lexical rule matches anywhere in t
Unmatched(t) ==
    /\ \A i \in 1..Len(t) :
          t[i] \notin LowerAZ \cup UpperAZ \cup {"(", ")", ".", ",", "~", "&", "|"}
    /\ \A i \in 1..(Len(t) - 1) : ~(t[i] = "-" /\ t[i + 1] = ">")

Productions == {"parse_formula", "parse_quantifier", "parse_predicate", "parse_term"}

\* the top frame returns to its caller in this step
Returns ==
    /\ status = "running"
    /\ status' # "raising"
    /\ Len(stack') < Len(stack)

\* C8: every parse terminates, with a formula or a ParseError.  A call of a
\* production that is entered again inside itself has moved the cursor
\* forward by then, and has moved it forward when it returns; a call that
\* fails with the cursor where it was entered has consumed nothing and has
\* at most passed the same token on to the production that failed.  Each round of the argument loop of a predicate moves the
\* cursor by two tokens, a term and a comma.
C8_Termination ==
    /\ (status = "ready") ~> Done
    /\ [](\A i \in 1..Len(stack) : \A j \in (i + 1)..Len(stack) :
             /\ stack[i].entry <= stack[j].entry
             /\ stack[j].entry <= pos
             /\ (stack[i].fn = stack[j].fn /\ stack[i].fn \in Productions) =>
                   stack[i].entry < stack[j].entry)
    /\ [][(Returns /\ Top.fn \in Productions) => pos' > Top.entry]_vars
    /\ [](\A i \in 1..Len(stack) :
             (status = "running" /\ stack[i].fn = "parse_predicate") =>
                /\ stack[i].pc = "157" =>
                      /\ i < Len(stack)
                      /\ stack[i + 1].entry = stack[i].entry + 2 + 2 * Len(stack[i].terms)
                /\ stack[i].pc = "158" =>
                      pos = stack[i].entry + 1 + 2 * Len(stack[i].terms))
    /\ [](status = "raising" =>
             \A i \in 1..Len(stack) :
                stack[i].entry = pos =>
                   stack[i].pc \in {"107", "113", "132", "134", "139", "152", "165"})

C8_Witness ==
    /\ status = "returned"
    /\ text = Example2
    /\ pos = Len(tokens)
    /\ pos = 15

\* a frame of parse_formula that has consumed, as its operator, a token
\* that is no binary operator
InvalidOp(frame) ==
    /\ frame.fn = "parse_formula"
    /\ frame.op # None
    /\ frame.op \notin BinaryOperators

\* an exception is raised in this step
Raises == status = "running" /\ status' = "raising"

\* C9, as stated: once a token that is not '&', '|' or '->' has been
\* consumed as the operator of a group, the parse fails with the "unknown
\* binary operator" error that names it, whatever follows.
C9_UnknownOperatorWhateverFollows ==
    Failed =>
       \A i \in 1..Len(stack) :
          InvalidOp(stack[i]) => error = ParseError(MsgUnknownOp, <<stack[i].op>>)

\* C9, amended: after '(' and a complete left formula exactly one token is
\* consumed as the operator, whatever it is.  When it is not '&', '|' or
\* '->' the group never yields a formula and the parse fails, but the
\* "unknown binary operator" error that names the token is raised only
\* after the right formula and the closing ')' have been parsed as well;
\* when the right formula is invalid or the ')' is missing, the parse
\* fails with the error of that failure instead.
C9_UnknownOperatorAfterClose ==
    /\ [][(Running("parse_formula", "117") /\ pos < Len(tokens)) =>
             /\ status' = "running"
             /\ pos' = pos + 1
             /\ stack'[Len(stack)].op = tokens[pos + 1]
             /\ stack'[Len(stack)].left = Top.left
             /\ IsTree(Top.left)]_vars
    /\ [][\A i \in 1..Len(stack) :
             InvalidOp(stack[i]) =>
                \/ Failed'
                \/ Len(stack') >= i /\ stack'[i].op = stack[i].op]_vars
    /\ [][(Raises /\ error'.msg = MsgUnknownOp) =>
             /\ Running("parse_formula", "119")
             /\ InvalidOp(Top)
             /\ error'.args = <<Top.op>>
             /\ IsTree(Top.right)
             /\ _peek = RPAREN
             /\ pos' = pos + 1]_vars
    /\ [][(Running("parse_formula", "119") /\ InvalidOp(Top) /\ _peek = RPAREN) =>
             (Raises /\ error' = ParseError(MsgUnknownOp, <<Top.op>>))]_vars
    /\ []((Done /\ text = BadOperator) =>
             (status = "raised" /\ error = ParseError(MsgUnknownOp, <<<<"x">>>>)))
    /\ []((Done /\ text = BadOperatorNoRight) =>
             (status = "raised" /\ error = ParseError(MsgForFormula, <<RPAREN>>)))

C9_Witness ==
    /\ status = "raised"
    /\ text = BadOperatorNoRight
    /\ tokens[6] = <<"x">>
    /\ error.msg = MsgForFormula

C9_WitnessUnknownOp ==
    /\ status = "raised"
    /\ text = BadOperator
    /\ error.msg = MsgUnknownOp

\* The token a call of _consume expects at a place of the parser, None
\* where it is called without one: '(' and '~' in parse_formula are
\* consumed after a peek found them.
ExpectedAt(pc) ==
    CASE pc = "113" -> _peek
      [] pc = "119" -> RPAREN
      [] pc = "144" -> DOT
      [] pc = "153" -> LPAREN
      [] pc = "158" -> COMMA
      [] pc = "161" -> RPAREN
      [] OTHER -> None

\* this step is a call of _consume that succeeds
Consumes ==
    /\ status = "running"
    /\ pos < Len(tokens)
    /\ Top.pc \in {"113", "117", "119", "139", "140", "144", "152", "153", "158",
                   "161", "165"}
    /\ Top.pc = "113" => _peek \in {LPAREN, NEG}
    /\ ExpectedAt(Top.pc) \in {None, _peek}

\* C10: the cursor stays within 0..len(tokens) and never moves back; only
\* a call of _consume that succeeds moves it, by exactly one; a peek and a
\* call of _consume that fails leave it where it is; the tokens are never
\* changed once the text is tokenized.
C10_ForwardOnlyCursor ==
    /\ [](0 <= pos /\ pos <= Len(tokens))
    /\ [][pos' >= pos]_vars
    /\ [][pos' # pos => (pos' = pos + 1 /\ Consumes)]_vars
    /\ [][(Raises /\ error'.msg \in {MsgExpected, MsgEndOfInput}) => pos' = pos]_vars
    /\ [][(status = "running" /\ ~Consumes) => pos' = pos]_vars
    /\ [][status # "new" => tokens' = tokens]_vars

C10_Witness ==
    /\ status = "raising"
    /\ error.msg = MsgExpected
    /\ pos = 4
    /\ pos < Len(tokens)
    /\ text = Spaced(_tokenize(text))

\* C1: for every text that parse accepts, the rendering of the formula it
\* returns is accepted as well, and parsing it gives the same tree again,
\* also when the formula holds a Negation, a Forall or an Exists.
C1_RoundTrip == (round = 2 /\ Done) => (status = "returned" /\ result = first)

\* C11: in every formula parse returns, for any text, every Variable name
\* matches [a-z][a-z0-9]* and every Constant and Predicate name matches
\* [A-Z][A-Z0-9]*, the bound variable of a Forall or Exists is a Variable,
\* and a quantifier gets past the check of its variable only when the
\* token of the variable is a lowercase identifier.
C11_IdentifierShape ==
    /\ status = "returned" => IsDerivation(result)
    /\ \A i \in 1..Len(stack) :
          (stack[i].fn = "parse_quantifier" /\ stack[i].pc \in {"144", "145", "146"}) =>
             /\ stack[i].variable.kind = "Variable"
             /\ IsLowerIdent(stack[i].variable.name)

\* a step of the parser whose thread runs: its construction or a step of
\* its parse
ParserStep == Construct \/ ParseStep

\* C12: when the steps of two parses on separate parsers are interleaved
\* in any order, a step of one parser leaves the tokens, the cursor and
\* all else of the other parser as they were, each parser's tokens are
\* those of its own text and its cursor stays within them, and each parse
\* ends as the parse of the same text by a parser that runs alone ends:
\* with the same formula or the same error, at the same cursor.
C12_Independence ==
    /\ [][ParserStep => other' = other]_vars
    /\ [](status # "new" => (tokens = _tokenize(text) /\ pos \in 0..Len(tokens)))
    /\ []((other # None /\ other.status # "new") =>
             /\ other.tokens = _tokenize(other.text)
             /\ other.pos \in 0..Len(other.tokens))
    /\ []((round = 2 /\ Done) => Instance = first)

\* both parses are under way, on different texts, neither at its start,
\* and the one that waits is past a point the one that runs has not
\* reached
C12_Witness ==
    /\ round = 1
    /\ other # None
    /\ status = "running"
    /\ other.status = "running"
    /\ tokens # other.tokens
    /\ pos > 0
    /\ other.pos > pos
    /\ Len(stack) > 2
    /\ Len(other.stack) > 2

\* a parse that was interleaved with another has been run again alone and
\* returned, as it had when interleaved
C12_WitnessAlone ==
    /\ round = 2
    /\ status = "returned"
    /\ first.status = "returned"
    /\ result = first.result
    /\ result.kind = "Exists"

====
